---- MODULE Spec2Model ----
(***************************************************************************)
(* The WordPress site registry of tikgen: the route handlers GET, POST and *)
(* DELETE of app/src/utils/wordpress/sites/route.ts over the document      *)
(* config.json.                                                            *)
(*                                                                         *)
(* The document is a file of JSON text.  Every handler parses it with      *)
(* JSON.parse and the writers put it back with JSON.stringify, so the      *)
(* model keeps the file as text (literals) and the handlers' config as     *)
(* JavaScript values, with the two conversions between them.               *)
(*                                                                         *)
(* A handler is an async function.  Its only suspension point is           *)
(* `await request.json()`; what follows (readFileSync, the update,         *)
(* writeFileSync, the response) is synchronous and runs to completion on   *)
(* the single JavaScript thread, so it is one action.                      *)
(*                                                                         *)
(* With it: the connectivity check, POST of                                *)
(* app/src/utils/wordpress/test-connection/route.ts, and the page          *)
(* WordPressManager of app/src/gui/WordPressManager.tsx, whose async       *)
(* handlers keep the state of the render they were created in across       *)
(* their awaits.                                                           *)
(***************************************************************************)
EXTENDS Integers, Sequences, FiniteSets, TLC

VARIABLES file, reqs, response, probes,
          view, loading, newSite, fetches, adds, toast, typed, mounted, shown

registryVars == <<file, reqs, response>>
probeVars == <<probes>>
guiVars == <<view, loading, newSite, fetches, adds, toast, typed, mounted, shown>>
vars == <<file, reqs, response, probes,
          view, loading, newSite, fetches, adds, toast, typed, mounted, shown>>

(***************************************************************************)
(* Bounds and input sets.                                                  *)
(***************************************************************************)
\* The longest collection the model lets POST build.
MaxSites == 3

\* The longest list the model lets the page build with addSite.
MaxView == 2

\* How many times the model lets the user type into the form of one page.
MaxTyped == 3

\* How many invocations of addSite the model lets one page have suspended.
MaxAdds == 2

\* The requests the service may have in flight at once.
Slots == {1, 2}

\* The connectivity checks the service may have in flight at once.
ProbeSlots == {1, 2}

\* axios.get(..., { timeout: 5000 })
ProbeTimeoutMs == 5000

\* ---- JSON text (what the file and the HTTP bodies hold) ----------------
StrLit(s) == [lit |-> "string", s |-> s]
NumLit(s) == [lit |-> "number", s |-> s]
NullLit == [lit |-> "null", s |-> "null"]
BoolLit(b) == [lit |-> "boolean", s |-> IF b THEN "true" ELSE "false"]

\* ---- JavaScript values (what JSON.parse returns) ------------------------
JsString(s) == [t |-> "string", v |-> s]
JsNumber(s) == [t |-> "number", v |-> s]
JsNull == [t |-> "null", v |-> "null"]
JsBoolean(b) == [t |-> "boolean", v |-> IF b THEN "true" ELSE "false"]
Undefined == [t |-> "undefined", v |-> "undefined"]

(***************************************************************************)
(* Numbers.  JSON.parse reads a number literal as the nearest double (ties *)
(* to even, Infinity beyond the largest), and JSON.stringify prints a      *)
(* double as Number::toString does: the shortest digits that read back as  *)
(* that double.  Both are computed here on decimal digits: sequences of    *)
(* 0..9, most significant first, <<>> for 0.                               *)
(***************************************************************************)
DigitChars == <<"0", "1", "2", "3", "4", "5", "6", "7", "8", "9">>

CharAt(s, i) == SubSeq(s, i, i)

DigitValue(c) == CHOOSE d \in 0..9 : DigitChars[d + 1] = c

\* A sequence given by its elements, computed once.
Eager(f) == SubSeq(f, 1, Len(f))

Zeros(n) == Eager([i \in 1..n |-> 0])

AllZero(d) == \A i \in 1..Len(d) : d[i] = 0

StripLeading(d) ==
  IF AllZero(d) THEN <<>>
  ELSE SubSeq(d, CHOOSE i \in 1..Len(d) :
                   d[i] # 0 /\ \A j \in 1..(i - 1) : d[j] = 0, Len(d))

StripTrailing(d) ==
  IF AllZero(d) THEN <<>>
  ELSE SubSeq(d, 1, CHOOSE i \in 1..Len(d) :
                      d[i] # 0 /\ \A j \in (i + 1)..Len(d) : d[j] = 0)

Odd(d) == d # <<>> /\ d[Len(d)] % 2 = 1

\* 2 * d + c, for c in {0, 1}: the carry out of a digit is set by the digit
\* alone, so every digit of the result is read off two digits of d.
DblC(d, c) ==
  StripLeading(Eager(
    [i \in 1..(Len(d) + 1) |->
       LET this == IF i = 1 THEN 0 ELSE d[i - 1]
           carry == IF i = Len(d) + 1 THEN c
                    ELSE IF d[i] >= 5 THEN 1 ELSE 0
       IN  (2 * this + carry) % 10]))

Dbl(d) == DblC(d, 0)

\* floor(d / 2)
Halve(d) ==
  StripLeading(Eager(
    [i \in 1..Len(d) |->
       LET above == IF i = 1 THEN 0 ELSE d[i - 1] % 2
       IN  (d[i] + 10 * above) \div 2]))

\* d + 1 and d - 1 (d > 0)
Inc(d) ==
  IF \A i \in 1..Len(d) : d[i] = 9 THEN <<1>> \o Zeros(Len(d))
  ELSE LET p == CHOOSE i \in 1..Len(d) :
                  d[i] # 9 /\ \A j \in (i + 1)..Len(d) : d[j] = 9
       IN  Eager([i \in 1..Len(d) |->
                    IF i < p THEN d[i] ELSE IF i = p THEN d[i] + 1 ELSE 0])

Dec(d) ==
  LET p == CHOOSE i \in 1..Len(d) :
             d[i] # 0 /\ \A j \in (i + 1)..Len(d) : d[j] = 0
  IN  StripLeading(Eager([i \in 1..Len(d) |->
                            IF i < p THEN d[i] ELSE IF i = p THEN d[i] - 1 ELSE 9]))

\* a < b, for a and b of the same length
LessSameLen(a, b) ==
  \E i \in 1..Len(a) : a[i] < b[i] /\ \A j \in 1..(i - 1) : a[j] = b[j]

Less(a, b) ==
  \/ Len(a) < Len(b)
  \/ Len(a) = Len(b) /\ LessSameLen(a, b)

\* 2^52 and 2^53
Two52 == <<4, 5, 0, 3, 5, 9, 9, 6, 2, 7, 3, 7, 0, 4, 9, 6>>
Two53 == Dbl(Two52)

\* The exponent of the smallest subnormal double, 2^-1074.
MinExponent == -1074

\* ---- Reading the literal -------------------------------------------------
\* int [ "." frac ] [ ("e" | "E") [sign] exp ], after an optional "-".
ExpPos(s) ==
  IF \E i \in 1..Len(s) : CharAt(s, i) \in {"e", "E"}
    THEN CHOOSE i \in 1..Len(s) : CharAt(s, i) \in {"e", "E"}
    ELSE Len(s) + 1

DotPos(s) ==
  IF \E i \in 1..Len(s) : CharAt(s, i) = "."
    THEN CHOOSE i \in 1..Len(s) : CharAt(s, i) = "."
    ELSE ExpPos(s)

DigitsOf(s, from, to) ==
  IF to < from THEN <<>>
  ELSE Eager([i \in 1..(to - from + 1) |-> DigitValue(CharAt(s, from + i - 1))])

IntDigits(s) == DigitsOf(s, IF CharAt(s, 1) = "-" THEN 2 ELSE 1, DotPos(s) - 1)

FracDigits(s) == DigitsOf(s, DotPos(s) + 1, ExpPos(s) - 1)

\* The value of at most six digits; a longer exponent is beyond every double
\* and is read as 1000000.
SmallNat(d) ==
  IF Len(d) > 6 THEN 1000000
  ELSE LET p == Zeros(6 - Len(d)) \o d
       IN  100000 * p[1] + 10000 * p[2] + 1000 * p[3] + 100 * p[4] + 10 * p[5] + p[6]

Exponent(s) ==
  LET e == ExpPos(s)
  IN  IF e > Len(s) THEN 0
      ELSE LET signed == CharAt(s, e + 1) \in {"+", "-"}
               digits == StripLeading(DigitsOf(s, IF signed THEN e + 2 ELSE e + 1, Len(s)))
           IN  IF CharAt(s, e + 1) = "-" THEN -SmallNat(digits) ELSE SmallNat(digits)

\* The literal is digits * 10^scale, the digits being those of its integer
\* and fraction parts with no zero at either end.
Scale(s) ==
  LET all == IntDigits(s) \o FracDigits(s)
  IN  Exponent(s) - Len(FracDigits(s))
        + (Len(all) - Len(StripTrailing(all)))

\* ---- Rounding to a double ------------------------------------------------
\* The value v > 0 is kept as int + frac / 10^Len(frac).  It is halved
\* (t counts the halvings, sticky what they dropped) or doubled (s counts)
\* until its integer part h has 54 bits: 53 for the double and one to round
\* by; doubling stops at 2^-1075, where the subnormal doubles end.
SplitInt(d, scale) ==
  IF scale >= 0 THEN d \o Zeros(scale)
  ELSE IF -scale >= Len(d) THEN <<>>
  ELSE SubSeq(d, 1, Len(d) + scale)

SplitFrac(d, scale) ==
  IF scale >= 0 THEN <<>>
  ELSE IF -scale >= Len(d) THEN Zeros(-scale - Len(d)) \o d
  ELSE SubSeq(d, Len(d) + scale + 1, Len(d))

\* 2 * frac, kept to the width of frac; the carry goes to the integer part.
DblFixed(f) ==
  Eager([i \in 1..Len(f) |->
           (2 * f[i] + (IF i < Len(f) /\ f[i + 1] >= 5 THEN 1 ELSE 0)) % 10])

\* One step of bringing the integer part to 54 bits: a halving that records
\* what it drops, or a doubling, which ends where the subnormal doubles end.
ScaleStep(st) ==
  IF ~Less(st.int, Dbl(Two53))
    THEN [st EXCEPT !.int = Halve(st.int),
                    !.sticky = st.sticky \/ Odd(st.int),
                    !.e = st.e + 1]
  ELSE IF Less(st.int, Two53) /\ st.e > MinExponent
    THEN [st EXCEPT !.int = DblC(st.int, IF st.frac # <<>> /\ st.frac[1] >= 5 THEN 1 ELSE 0),
                    !.frac = DblFixed(st.frac),
                    !.e = st.e - 1]
  ELSE st

\* One step of lo, mid and hi times 2^g: a doubling, or a halving that moves
\* the point (times 5, which is half of times 10).
TimesStep(st) ==
  IF st.g = 0 THEN st
  ELSE IF st.g > 0
    THEN [st EXCEPT !.lo = Dbl(st.lo), !.mid = Dbl(st.mid), !.hi = Dbl(st.hi),
                    !.g = st.g - 1]
  ELSE [st EXCEPT !.lo = Halve(st.lo \o <<0>>), !.mid = Halve(st.mid \o <<0>>),
                  !.hi = Halve(st.hi \o <<0>>), !.g = st.g + 1]

\* ---- The loops ---------------------------------------------------------
\* A state says which loop it is in (op); a step leaves a finished state as
\* it is.
LoopStep(st) ==
  CASE st.op = "scale" -> ScaleStep(st)
    [] st.op = "times" -> TimesStep(st)

\* n steps.
RECURSIVE Steps(_, _)
Steps(st, n) == IF n = 0 THEN st ELSE Steps(LoopStep(st), n - 1)

RECURSIVE Loop(_)
Loop(st) == IF LoopStep(st) = st THEN st ELSE Loop(Steps(st, 16))

\* The last of the 54 bits rounds the other 53, ties to even; the rest of
\* the value is not zero when sticky or frac is not.
RoundUp(st) ==
  Odd(st.int) /\ (st.sticky \/ ~AllZero(st.frac) \/ Odd(Halve(st.int)))

\* m * 2^e with m < 2^53: rounding up to 2^53 gives 2^52 * 2^(e + 1).
Rounded(st) ==
  IF ~RoundUp(st) THEN [m |-> Halve(st.int), e |-> st.e]
  ELSE IF Inc(Halve(st.int)) = Two53 THEN [m |-> Two52, e |-> st.e + 1]
  ELSE [m |-> Inc(Halve(st.int)), e |-> st.e]

\* The double nearest to digits * 10^scale (ties to even), as m * 2^e with
\* m < 2^53 in decimal digits; m = <<>> is zero, e > 971 is Infinity.  The
\* loop brings the integer part to 54 bits, the value being int * 2^(e - 1).
NearestDouble(d, scale) ==
  Rounded(Loop([op |-> "scale", int |-> SplitInt(d, scale), frac |-> SplitFrac(d, scale),
                sticky |-> FALSE, e |-> 1]))

\* ---- Printing a double ---------------------------------------------------
PadTo(d, n) == Zeros(n - Len(d)) \o d

\* The numbers that round to a double lie between lo and hi around mid (the
\* double itself), the ends included when closed; all three are integers
\* times 2^g.
Bounds(w, up, g, closed) ==
  [op |-> "times", lo |-> Dec(w), mid |-> w, hi |-> up, g |-> g,
   frac |-> IF g < 0 THEN -g ELSE 0, closed |-> closed]

\* lo, mid and hi as integers over 10^frac, written with the same number of
\* digits, the first a zero.
Padded(st) ==
  [lo |-> PadTo(st.lo, Len(st.hi) + 1),
   mid |-> PadTo(st.mid, Len(st.hi) + 1),
   hi |-> PadTo(st.hi, Len(st.hi) + 1),
   len |-> Len(st.hi) + 1,
   first |-> Len(st.hi) - Len(st.mid) + 2,
   frac |-> st.frac,
   closed |-> st.closed]

\* The doubles next to m * 2^e are half as far below it when m = 2^52.
RoundingInterval(m, e) ==
  Padded(Loop(IF m = Two52 /\ e > MinExponent
                THEN Bounds(Dbl(Dbl(m)), Inc(Inc(Dbl(Dbl(m)))), e - 2, ~Odd(m))
                ELSE Bounds(Dbl(m), Inc(Dbl(m)), e - 1, ~Odd(m))))

\* The candidates with p digits are mid cut after its p-th digit, which is
\* place Cut(iv, p), and the next number of p digits above that.
Cut(iv, p) == iv.first + p - 1

RestZero(x, q) == \A i \in (q + 1)..Len(x) : x[i] = 0

Prefix(x, q) == SubSeq(x, 1, IF q < Len(x) THEN q ELSE Len(x))

DownOk(iv, p) ==
  LET q == Cut(iv, p)
  IN  \/ q >= iv.len
      \/ LessSameLen(Prefix(iv.lo, q), Prefix(iv.mid, q))
      \/ iv.closed /\ Prefix(iv.lo, q) = Prefix(iv.mid, q) /\ RestZero(iv.lo, q)

UpPrefix(iv, p) ==
  PadTo(Inc(StripLeading(Prefix(iv.mid, Cut(iv, p)))), Cut(iv, p))

UpOk(iv, p) ==
  LET q == Cut(iv, p)
  IN  /\ q < iv.len
      /\ \/ LessSameLen(UpPrefix(iv, p), Prefix(iv.hi, q))
         \/ UpPrefix(iv, p) = Prefix(iv.hi, q) /\ (iv.closed \/ ~RestZero(iv.hi, q))

\* How many digits the shortest candidate has.
DigitCount(iv) ==
  CHOOSE k \in 1..17 :
    /\ DownOk(iv, k) \/ UpOk(iv, k)
    /\ \A j \in 1..(k - 1) : ~(DownOk(iv, j) \/ UpOk(iv, j))

\* The digits of x after place q are more than half a unit of place q, or
\* half a unit with the digit at q odd.
UpNearer(x, q) ==
  LET next == IF q < Len(x) THEN x[q + 1] ELSE 0
  IN  next > 5 \/ (next = 5 /\ (~RestZero(x, q + 1) \/ x[q] % 2 = 1))

\* Of the two candidates with p digits the upper one is taken when it alone
\* reads back as the double, or when both do and it is the nearer (the even
\* one on a tie).
TakeUp(iv, p) ==
  /\ ~(Cut(iv, p) >= iv.len \/ RestZero(iv.mid, Cut(iv, p)))
  /\ UpOk(iv, p)
  /\ ~DownOk(iv, p) \/ UpNearer(iv.mid, Cut(iv, p))

Candidate(iv, p) ==
  IF TakeUp(iv, p) THEN UpPrefix(iv, p) ELSE Prefix(iv.mid, Cut(iv, p))

\* The candidate as [digits, n], its value being 0.digits * 10^n.
Placed(iv, chosen) ==
  [digits |-> StripTrailing(StripLeading(chosen)),
   n |-> iv.len - iv.frac - (Len(chosen) - Len(StripLeading(chosen)))]

\* The shortest digits that read back as the double, and among those the
\* nearest to it (Number::toString).
ShortestDigits(iv) == Placed(iv, Candidate(iv, DigitCount(iv)))

\* The digits as text.
RECURSIVE Text(_)
Text(d) == IF d = <<>> THEN "" ELSE DigitChars[d[1] + 1] \o Text(Tail(d))

\* A decimal exponent as text: it has at most three digits.
NatText(n) ==
  Text(StripLeading(<<n \div 100, (n \div 10) % 10, n % 10>>) \o
       (IF n = 0 THEN <<0>> ELSE <<>>))

\* Number::toString of x = [digits, n], which is 0.digits * 10^n
NumberText(x) ==
  IF Len(x.digits) <= x.n /\ x.n <= 21 THEN Text(x.digits \o Zeros(x.n - Len(x.digits)))
  ELSE IF 0 < x.n /\ x.n <= 21
    THEN Text(SubSeq(x.digits, 1, x.n)) \o "." \o
         Text(SubSeq(x.digits, x.n + 1, Len(x.digits)))
  ELSE IF -6 < x.n /\ x.n <= 0 THEN "0." \o Text(Zeros(-x.n) \o x.digits)
  ELSE Text(<<x.digits[1]>>) \o (IF Len(x.digits) = 1 THEN "" ELSE ".") \o
       Text(Tail(x.digits)) \o
       (IF x.n < 1 THEN "e-" \o NatText(1 - x.n) ELSE "e+" \o NatText(x.n - 1))

\* The double m * 2^e as text, Infinity when it is beyond the largest double,
\* whose e is 971.
DoubleText(dbl, sign) ==
  IF dbl.m = <<>> THEN "0"
  ELSE IF dbl.e > 971 THEN sign \o "Infinity"
  ELSE sign \o NumberText(ShortestDigits(RoundingInterval(dbl.m, dbl.e)))

\* The double nearest to digits * 10^scale as text; a value beyond every
\* double or below every double needs no rounding.
DecimalText(d, scale, sign) ==
  IF d = <<>> \/ Len(d) + scale < -324 THEN "0"
  ELSE IF Len(d) + scale > 309 THEN sign \o "Infinity"
  ELSE DoubleText(NearestDouble(d, scale), sign)

\* The double a JSON number literal denotes, named by what JSON.stringify's
\* number printing (Number::toString) gives for it, "Infinity" and
\* "-Infinity" for a literal beyond the doubles.
ParseDouble(s) ==
  DecimalText(StripTrailing(StripLeading(IntDigits(s) \o FracDigits(s))), Scale(s),
              IF CharAt(s, 1) = "-" THEN "-" ELSE "")

\* The number literals of the documents below.
NumberLiterals == {"10", "9007199254740993"}

\* Those literals and the ones a write-back puts in their place, each with
\* what it is read as, computed once.
DoubleOf ==
  [s \in NumberLiterals \cup
           ({ParseDouble(l) : l \in NumberLiterals} \ {"Infinity", "-Infinity"}) |->
     ParseDouble(s)]

\* JSON.parse of a number literal.
ToDouble(s) == IF s \in DOMAIN DoubleOf THEN DoubleOf[s] ELSE ParseDouble(s)

\* JSON.parse of one scalar literal.
JSONparseValue(l) ==
  CASE l.lit = "string" -> JsString(l.s)
    [] l.lit = "number" -> JsNumber(ToDouble(l.s))
    [] l.lit = "boolean" -> JsBoolean(l.s = "true")
    [] OTHER -> JsNull

\* JSON.stringify of one scalar value: a non-finite number is written null.
JSONstringifyValue(x) ==
  CASE x.t = "string" -> StrLit(x.v)
    [] x.t = "number" ->
         IF x.v \in {"Infinity", "-Infinity", "NaN"} THEN NullLit ELSE NumLit(x.v)
    [] x.t = "boolean" -> BoolLit(x.v = "true")
    [] OTHER -> NullLit

\* JSON.parse / JSON.stringify of a flat object (a site record, a request body).
JSONparseObject(o) == [k \in DOMAIN o |-> JSONparseValue(o[k])]
\* JSON.stringify leaves out a property whose value is undefined.
JSONstringifyObject(o) ==
  [k \in {j \in DOMAIN o : o[j] # Undefined} |-> JSONstringifyValue(o[k])]

JSONparseArray(a) == [i \in 1..Len(a) |-> JSONparseObject(a[i])]
JSONstringifyArray(a) == [i \in 1..Len(a) |-> JSONstringifyObject(a[i])]

SitesKey == "wordpress_sites"

\* JSON.parse / JSON.stringify of the whole document.
JSONparse(d) ==
  [k \in DOMAIN d |->
     IF k = SitesKey THEN JSONparseArray(d[k]) ELSE JSONparseValue(d[k])]
JSONstringify(c) ==
  [k \in DOMAIN c |->
     IF k = SitesKey THEN JSONstringifyArray(c[k]) ELSE JSONstringifyValue(c[k])]

\* obj.key in JavaScript: undefined when the object has no such property.
Prop(o, k) == IF k \in DOMAIN o THEN o[k] ELSE Undefined

(***************************************************************************)
(* The file config.json.                                                   *)
(*   kind = "json"    : text is a JSON object, kept as key |-> literal     *)
(*   kind = "missing" : the file does not exist                            *)
(*   kind = "garbage" : the file exists and is not JSON                    *)
(*   kind = "torn"    : the file holds a proper prefix of a document that  *)
(*                      a writeFileSync did not finish writing             *)
(***************************************************************************)
NoText == [k \in {} |-> NullLit]

JsonFile(d) == [kind |-> "json", text |-> d]
MissingFile == [kind |-> "missing", text |-> NoText]
GarbageFile == [kind |-> "garbage", text |-> NoText]
TornFile == [kind |-> "torn", text |-> NoText]

\* A read that falls back to an empty document when there is no file
\* (existsSync ? read : "{}"): it never throws.
readFileSyncDefaults(f) == FALSE

\* fs.readFileSync(configPath, "utf-8") throws when there is no file.
readFileSyncThrows(f) == f.kind = "missing"

\* JSON.parse throws a SyntaxError on text that is not JSON; a proper prefix
\* of a stringified object never is.
JSONparseThrows(f) == f.kind \in {"garbage", "torn"}

\* What fs.writeFileSync(configPath, data) can do.  It opens the file with
\* O_TRUNC and then writes the bytes, so it is not atomic:
\*   "ok"     the data replaces the file
\*   "EACCES" open fails; the file is untouched and the call throws
\*   "ENOSPC" the file was truncated and a write failed; the call throws
\*   "crash"  the process dies between the truncation and the last write
WriteOutcomes == {"ok", "EACCES", "ENOSPC", "crash"}

writeFileSync(f, data, outcome) ==
  CASE outcome = "ok" -> JsonFile(data)
    [] outcome = "EACCES" -> f
    [] OTHER -> TornFile

writeFileSyncThrows(outcome) == outcome \in {"EACCES", "ENOSPC"}

(***************************************************************************)
(* Inputs: the site records a client posts and the urls it deletes.        *)
(***************************************************************************)
Urls == {"https://a.example", "https://b.example", "https://c.example"}

\* The records clients post: one per url, and a second one for the first url
\* that lacks the category the other has (the other fields of a WordPressSite
\* are passed through the same way).
SiteBodies ==
  {[url |-> StrLit(u), category |-> StrLit("tech")] : u \in Urls}
    \cup {[url |-> StrLit("https://a.example")]}

DeleteBodies == {[url |-> StrLit(u)] : u \in Urls}

\* The body of a request that carries none, or whose body is not JSON.
NoBody == [k \in {} |-> NullLit]

\* Top-level keys of the document that the registry does not own.
OtherKey == "board_id"
\* A value that survives JSON.parse and JSON.stringify, and an integer above
\* 2^53 (an 18-digit board id is one) that no double represents.
OtherValues == {NumLit(s) : s \in NumberLiterals}

UrlOf(o) == Prop(o, "url")

NoDuplicates(a) ==
  \A i, j \in 1..Len(a) : UrlOf(a[i]) = UrlOf(a[j]) => i = j

\* The collections a document may hold when the service starts.
InitSites ==
  {a \in UNION {[1..n -> SiteBodies] : n \in 0..MaxSites} : NoDuplicates(a)}

InitDocs ==
  LET withSites == {[k \in {SitesKey} |-> a] : a \in InitSites}
      withOrWithout == withSites \cup {NoText}
  IN  withOrWithout
        \cup {[k \in DOMAIN d \cup {OtherKey} |->
                 IF k = OtherKey THEN v ELSE d[k]] :
               d \in withOrWithout, v \in OtherValues}

InitFiles == {MissingFile, GarbageFile} \cup {JsonFile(d) : d \in InitDocs}

(***************************************************************************)
(* Requests and responses.                                                 *)
(*   reqs[r]  : a request the service has accepted and whose handler is    *)
(*              suspended at `await request.json()` (pc = "json"), or a    *)
(*              free slot (pc = "idle")                                    *)
(*   response : what the handler that ran last returned, with the request  *)
(*              it answered and the handler's existingIndex and caught     *)
(*              error                                                      *)
(***************************************************************************)
Idle == [pc |-> "idle", method |-> "none", bodyOk |-> TRUE, body |-> NoBody]

Pending(m, ok, b) == [pc |-> "json", method |-> m, bodyOk |-> ok, body |-> b]

Payload(tag, sites) == [tag |-> tag, sites |-> sites]

Response(rq, status, payload, error, idx) ==
  [method |-> rq.method, bodyOk |-> rq.bodyOk, body |-> rq.body,
   status |-> status, payload |-> payload, error |-> error,
   existingIndex |-> idx]

NoResponse == Response(Idle, 0, Payload("none", <<>>), "none", -1)

\* NextResponse.json({ success: true })
Success(rq, idx) == Response(rq, 200, Payload("success", <<>>), "none", idx)

\* NextResponse.json({ error: "Failed to ..." }, { status: 500 })
Failure(rq, error) == Response(rq, 500, Payload("error", <<>>), error, -1)

\* The exception a handler catches before it touches the collection, or
\* "none": the request body first (POST and DELETE), then the file.
ThrownBeforeUpdate(rq, f) ==
  CASE rq.method # "GET" /\ ~rq.bodyOk -> "body"
    [] readFileSyncThrows(f) -> "read"
    [] JSONparseThrows(f) -> "parse"
    [] OTHER -> "none"

\* config.wordpress_sites || []
SitesOrEmpty(config) ==
  IF SitesKey \in DOMAIN config THEN config[SitesKey] ELSE <<>>

\* config with config.wordpress_sites = sites, every other key as it was.
WithSites(config, sites) ==
  [k \in DOMAIN config \cup {SitesKey} |->
     IF k = SitesKey THEN sites ELSE config[k]]

\* sites.findIndex(s => s.url === site.url), 0-based, -1 when there is none.
findIndex(sites, site) ==
  LET hits == {i \in 1..Len(sites) : UrlOf(sites[i]) = UrlOf(site)}
  IN  IF hits = {} THEN -1
      ELSE (CHOOSE i \in hits : \A j \in hits : i <= j) - 1

\* Upsert that never looks for the record: always push.
UpsertAlwaysPush(sites, site) == Append(sites, site)

\* Upsert that adds a new record at the front (unshift for push).
UpsertUnshift(sites, site) ==
  LET existingIndex == findIndex(sites, site)
  IN  IF existingIndex # -1
        THEN [sites EXCEPT ![existingIndex + 1] = site]
        ELSE <<site>> \o sites

\* Upsert that merges into the old record: { ...old, ...site }.
UpsertMerge(sites, site) ==
  LET existingIndex == findIndex(sites, site)
      old == sites[existingIndex + 1]
      merged == [k \in DOMAIN old \cup DOMAIN site |->
                   IF k \in DOMAIN site THEN site[k] ELSE old[k]]
  IN  IF existingIndex # -1
        THEN [sites EXCEPT ![existingIndex + 1] = merged]
        ELSE Append(sites, site)

\* Upsert that rebuilds the collection around the one record it knows.
UpsertReplacesAll(sites, site) == <<site>>

\* Lines 26-31 of POST: replace at existingIndex, or push.
Upsert(sites, site) ==
  LET existingIndex == findIndex(sites, site)
  IN  IF existingIndex # -1
        THEN [sites EXCEPT ![existingIndex + 1] = site]
        ELSE Append(sites, site)

\* filter with the test the wrong way round: === for !==.
FilterKeepsMatching(sites, url) == SelectSeq(sites, LAMBDA s : UrlOf(s) = url)

\* sites.splice(sites.findIndex(s => s.url === url), 1): with no match the
\* index is -1 and splice removes the last record.
FilterSplice(sites, url) ==
  LET hits == {i \in 1..Len(sites) : UrlOf(sites[i]) = url}
      at == IF hits = {} THEN Len(sites)
            ELSE CHOOSE i \in hits : \A j \in hits : i <= j
  IN  [i \in 1..(IF sites = <<>> THEN 0 ELSE Len(sites) - 1) |->
         IF i < at THEN sites[i] ELSE sites[i + 1]]

\* sites.filter(site => site.url !== url)
Filter(sites, url) == SelectSeq(sites, LAMBDA s : UrlOf(s) # url)

\* The service accepts a POST or a DELETE; its handler starts and suspends at
\* `await request.json()`.
Arrive(r) ==
  /\ reqs[r].pc = "idle"
  /\ \E rq \in {Pending("POST", FALSE, NoBody),
                Pending("DELETE", FALSE, NoBody)}
           \cup {Pending("POST", TRUE, b) : b \in SiteBodies}
           \cup {Pending("DELETE", TRUE, b) : b \in DeleteBodies} :
       reqs' = [reqs EXCEPT ![r] = rq]
  /\ UNCHANGED <<file, response>>

\* GET without the `|| []`: a document with no collection is an error.
GetResponseNoDefault(f) ==
  LET rq == Pending("GET", TRUE, NoBody)
      thrown == ThrownBeforeUpdate(rq, f)
  IN  IF thrown # "none" THEN Failure(rq, thrown)
      ELSE IF SitesKey \notin DOMAIN JSONparse(f.text) THEN Failure(rq, "read")
      ELSE Response(rq, 200,
             Payload("sites", JSONstringifyArray(JSONparse(f.text)[SitesKey])),
             "none", -1)

\* The body of GET: the response for the file as it stands.
GetResponse(f) ==
  LET rq == Pending("GET", TRUE, NoBody)
      thrown == ThrownBeforeUpdate(rq, f)
  IN  IF thrown # "none" THEN Failure(rq, thrown)
      ELSE Response(rq, 200,
             Payload("sites",
               JSONstringifyArray(SitesOrEmpty(JSONparse(f.text)))),
             "none", -1)

\* export async function GET(): it awaits nothing, so the request is
\* answered in the step that accepts it.
GET ==
  /\ response' = GetResponse(file)
  /\ UNCHANGED <<file, reqs>>

\* What a handler leaves behind once it has computed the document to write:
\* the file after writeFileSync, and either the response it returns or, when
\* the process died in the write, a restarted service: no request in flight
\* and nothing returned yet.
WriteBack(r, data, outcome, idx) ==
  /\ file' = writeFileSync(file, data, outcome)
  /\ IF outcome = "crash"
       THEN /\ reqs' = [q \in Slots |-> Idle]
            /\ response' = NoResponse
       ELSE /\ reqs' = [reqs EXCEPT ![r] = Idle]
            /\ response' =
                 IF writeFileSyncThrows(outcome)
                   THEN Failure(reqs[r], "write")
                   ELSE Success(reqs[r], idx)

\* export async function POST(request: Request)
POST(r) ==
  LET rq == reqs[r]
      thrown == ThrownBeforeUpdate(rq, file)
  IN  /\ rq.pc = "json"
      /\ rq.method = "POST"
      /\ IF thrown # "none"
           THEN /\ response' = Failure(rq, thrown)
                /\ reqs' = [reqs EXCEPT ![r] = Idle]
                /\ UNCHANGED file
           ELSE LET site == JSONparseObject(rq.body)
                    config == JSONparse(file.text)
                    sites == SitesOrEmpty(config)
                    updated == WithSites(config, Upsert(sites, site))
                IN  /\ Len(updated[SitesKey]) <= MaxSites
                    /\ \E outcome \in WriteOutcomes :
                         WriteBack(r, JSONstringify(updated), outcome,
                                   findIndex(sites, site))

\* export async function DELETE(request: Request)
DELETE(r) ==
  LET rq == reqs[r]
      thrown == ThrownBeforeUpdate(rq, file)
  IN  /\ rq.pc = "json"
      /\ rq.method = "DELETE"
      /\ IF thrown # "none"
           THEN /\ response' = Failure(rq, thrown)
                /\ reqs' = [reqs EXCEPT ![r] = Idle]
                /\ UNCHANGED file
           ELSE LET url == UrlOf(JSONparseObject(rq.body))
                    config == JSONparse(file.text)
                IN  IF SitesKey \in DOMAIN config
                      THEN \E outcome \in WriteOutcomes :
                             WriteBack(r,
                               JSONstringify(
                                 WithSites(config, Filter(config[SitesKey], url))),
                               outcome, -1)
                      ELSE /\ response' = Success(rq, -1)
                           /\ reqs' = [reqs EXCEPT ![r] = Idle]
                           /\ UNCHANGED file


(***************************************************************************)
(* The connectivity check: POST of test-connection/route.ts.               *)
(*   probes[p] : one invocation of the handler: suspended at               *)
(*               `await request.json()` (pc = "json"), suspended at        *)
(*               `await axios.get(...)` (pc = "axios"), or returned        *)
(*               (pc = "done", with what the remote site did and the       *)
(*               response)                                                 *)
(***************************************************************************)
\* The candidates a client sends to be checked.
ProbeBodies ==
  {[url |-> StrLit(u), username |-> StrLit("admin"), password |-> StrLit("x")] :
     u \in {"https://a.example", "https://b.example"}}

\* response.data of the remote answer: a listing of posts (newest first), or
\* the null a remote may answer with.
Listing(items) == [kind |-> "array", items |-> items]
NullData == [kind |-> "null", items |-> <<>>]

PostDate == "2024-05-01T10:00:00"

RemoteData ==
  {Listing(<<>>),
   Listing(<<[date |-> JsString(PostDate)], [date |-> JsString("2023-01-01T00:00:00")]>>),
   Listing(<<[title |-> JsString("draft")]>>),
   Listing(<<[date |-> JsString("")]>>),
   NullData}

\* What the remote site does with the request: the status it answers ("none":
\* the host is unreachable), after how many milliseconds, with which
\* x-wp-total header and which body.
Remote(reply, latency, total, data) ==
  [reply |-> reply, latency |-> latency, total |-> total, data |-> data]

RemoteOutcomes ==
  {Remote("200", l, t, d) :
     l \in {100, 5001}, t \in {Undefined, JsString("2")}, d \in RemoteData}
    \cup {Remote(r, l, Undefined, NullData) :
            r \in {"401", "404", "none"}, l \in {100, 5001}}

NoRemote == Remote("none", 0, Undefined, NullData)

\* Why axios.get rejects, or "none" when it resolves: the timeout fires first;
\* otherwise an unreachable host, or a status outside 2xx (validateStatus).
AxiosError(o) ==
  CASE o.latency > ProbeTimeoutMs -> "timeout"
    [] o.reply = "none" -> "network"
    [] o.reply = "401" -> "auth"
    [] o.reply # "200" -> "http-status"
    [] OTHER -> "none"

ProbeResult(status, connected, version, lastPost, error) ==
  [status |-> status, connected |-> connected, version |-> version,
   last_post |-> lastPost, error |-> error]

NoProbeResult == ProbeResult(0, FALSE, Undefined, Undefined, "")

\* A catch that passes the cause on: { connected: false, error: <cause> }.
ProbeFailureClassified(cause) ==
  ProbeResult(500, FALSE, Undefined, Undefined, cause)

\* catch (error): the same answer whatever was thrown, { connected: false,
\* error } with neither version nor last_post.
ProbeFailure(cause) ==
  ProbeResult(500, FALSE, Undefined, Undefined, "Failed to connect to WordPress site")

\* response.data[0]?.date || null; reading [0] of null throws a TypeError.
LastPostThrows(data) == data.kind = "null"

\* The values `||` skips: undefined, null, false, 0, NaN and "".
Falsy(x) ==
  \/ x.t \in {"undefined", "null"}
  \/ x.t = "boolean" /\ x.v = "false"
  \/ x.t = "number" /\ x.v \in {"0", "NaN"}
  \/ x.t = "string" /\ x.v = ""

LastPost(data) ==
  IF data.items = <<>> THEN JsNull
  ELSE IF Falsy(Prop(data.items[1], "date")) THEN JsNull
  ELSE Prop(data.items[1], "date")

\* Lines 9-26: the response once axios.get has settled with outcome o.
ProbeResponse(o) ==
  IF AxiosError(o) # "none" THEN ProbeFailure(AxiosError(o))
  ELSE IF LastPostThrows(o.data) THEN ProbeFailure("TypeError")
  ELSE ProbeResult(200, TRUE, o.total, LastPost(o.data), "")

NoProbe ==
  [pc |-> "idle", bodyOk |-> TRUE, body |-> NoBody, remote |-> NoRemote,
   result |-> NoProbeResult]

\* The service accepts a check; the handler suspends at await request.json().
ProbeArrive(p) ==
  /\ probes[p].pc = "idle"
  /\ \E ok \in BOOLEAN :
       \E b \in (IF ok THEN ProbeBodies ELSE {NoBody}) :
         probes' = [probes EXCEPT ![p] =
                      [NoProbe EXCEPT !.pc = "json", !.bodyOk = ok, !.body = b]]
  /\ UNCHANGED registryVars

\* request.json() settles: a body that is not JSON is caught and answered;
\* otherwise axios.get is issued and the handler suspends on it.
ProbeRequest(p) ==
  /\ probes[p].pc = "json"
  /\ probes' = [probes EXCEPT ![p] =
                  IF probes[p].bodyOk
                    THEN [@ EXCEPT !.pc = "axios"]
                    ELSE [@ EXCEPT !.pc = "done",
                                   !.result = ProbeFailure("body")]]
  /\ UNCHANGED registryVars

\* axios.get settles, within the timeout or by it, and the handler returns.
ProbeSettle(p) ==
  /\ probes[p].pc = "axios"
  /\ \E o \in RemoteOutcomes :
       probes' = [probes EXCEPT ![p] =
                    [@ EXCEPT !.pc = "done", !.remote = o,
                              !.result = ProbeResponse(o)]]
  /\ UNCHANGED registryVars

\* The client has its answer; the slot is free again.
ProbeRelease(p) ==
  /\ probes[p].pc = "done"
  /\ probes' = [probes EXCEPT ![p] = NoProbe]
  /\ UNCHANGED registryVars

(***************************************************************************)
(* The page: the component WordPressManager of gui/WordPressManager.tsx.   *)
(*   view    : the state `sites` as last set: an array of records, or      *)
(*             whatever else setSites was given                            *)
(*   loading : the state `loading` as last set                             *)
(*   newSite : the state `newSite`, the form, as last set                  *)
(*   shown   : the `sites`, `newSite` and `loading` of the last render:    *)
(*             what the page shows and what its handlers read              *)
(*   mounted : no render has thrown                                        *)
(*   fetches : the fetch calls of the page that have not settled yet, with *)
(*             the answer once it has come in                              *)
(*   adds    : the invocations of addSite suspended at                     *)
(*             `await testConnection(newSite)`, each with the `sites` and  *)
(*             `newSite` of the render it was created in and a number that *)
(*             tells it and its fetch from the others                      *)
(*   toast   : the notice the last step raised, "none" if it raised none   *)
(*   typed   : how many times the user has typed into the form since the   *)
(*             page was opened                                             *)
(***************************************************************************)
\* What `sites` holds: an array, or the object { error } of a 500 answer.
ArrayValue(items) == [kind |-> "array", items |-> items]
ErrorObject == [kind |-> "object", items |-> <<>>]

\* useState<WordPressSite>({ url: "", ..., max_posts_per_day: "4" })
DefaultSite ==
  [url |-> JsString(""), username |-> JsString(""), password |-> JsString(""),
   category |-> JsString("technology"), post_interval |-> JsString("6"),
   max_posts_per_day |-> JsString("4")]

\* What the user types into the inputs of the form.
FieldValues ==
  [url |-> {"", "https://a.example", "https://b.example"},
   username |-> {"", "admin"},
   password |-> {"", "x"},
   category |-> {"technology", "news"},
   post_interval |-> {"6", "12"},
   max_posts_per_day |-> {"4", "9"}]

\* The documents the registry may serve while the page is open: none, one
\* with no collection, one with one record.
GuiFiles ==
  {MissingFile,
   JsonFile(NoText),
   JsonFile([k \in {SitesKey} |->
               <<[url |-> StrLit("https://a.example"), category |-> StrLit("tech")]>>])}

\* A fetch call: the request, whether it is pending, answered or rejected,
\* and the answer (response of the registry, result of the connectivity
\* check).
Fetch(method, path, body) ==
  [method |-> method, path |-> path, body |-> body, id |-> 0,
   state |-> "pending", response |-> NoResponse, result |-> NoProbeResult]

\* fetch("/api/wordpress/sites")
GetSites == Fetch("GET", "/api/wordpress/sites", NoBody)

\* fetch("/api/wordpress/test-connection", { method: "POST", body: JSON.stringify(site) })
TestConnection(site) ==
  Fetch("POST", "/api/wordpress/test-connection", JSONstringifyObject(site))

\* A removeSite that also asks the registry to delete the record.
RemoveSiteFetchesDelete(url) ==
  {Fetch("DELETE", "/api/wordpress/sites",
         JSONstringifyObject([k \in {"url"} |-> url]))}

\* The fetch calls removeSite makes: none.
RemoveSiteFetches(url) == {}

\* The fetch calls a validated addSite makes: the connectivity check only.
AddSiteFetches(site) == {TestConnection(site)}

\* A validation that looks at the url only.
MissingRequiredUrlOnly(site) == site.url.v = ""

\* !newSite.url || !newSite.username || !newSite.password
MissingRequired(site) ==
  \/ site.url.v = ""
  \/ site.username.v = ""
  \/ site.password.v = ""

\* await response.json() of the answer to GET: the array of a 200, the
\* object { error } of a 500.
LoadedData(resp) ==
  IF resp.payload.tag = "sites"
    THEN ArrayValue(JSONparseArray(resp.payload.sites))
    ELSE ErrorObject

\* What testConnection returns: data.connected of the answer, false when
\* the fetch was rejected or its body was not JSON.
IsConnected(f) == IF f.state = "rejected" THEN FALSE ELSE f.result.connected

\* { ...newSite, is_connected: isConnected }
\* A merge that reports every candidate connected.
MergedAlwaysConnected(site, isConnected) ==
  [k \in DOMAIN site \cup {"is_connected"} |->
     IF k = "is_connected" THEN JsBoolean(TRUE) ELSE site[k]]

Merged(site, isConnected) ==
  [k \in DOMAIN site \cup {"is_connected"} |->
     IF k = "is_connected" THEN JsBoolean(isConnected) ELSE site[k]]

\* sites.filter(site => site.url !== url)
Remaining(items, url) ==
  SelectSeq(items, LAMBDA site : UrlOf(site) # url)

\* A render has thrown and React has unmounted the page: no handler of it
\* can be reached any more, and its state setters do nothing.
Unmounted == ~mounted

\* What a render of the state as it is shows and gives its handlers.
Rendered == [sites |-> view, newSite |-> newSite, loading |-> loading]

\* React renders the state that was set: the page shows it and the handlers
\* are created anew over it; sites.map(...) throws when `sites` is not an
\* array, and React unmounts the page.  When React renders is its own
\* business: it may be after one setter or after several, and handlers and
\* continuations may run before it.
render ==
  /\ ~Unmounted
  /\ shown # Rendered
  /\ IF view.kind = "array"
       THEN shown' = Rendered /\ UNCHANGED mounted
       ELSE mounted' = FALSE /\ UNCHANGED shown
  /\ toast' = "none"
  /\ UNCHANGED <<view, loading, newSite, fetches, adds>>
  /\ UNCHANGED <<typed, registryVars, probeVars>>

\* The page is opened (or reloaded): the component mounts with its initial
\* state and the effect calls loadSites, which suspends at its fetch.
\* Whatever the previous page had in flight is dropped with it.
Mount ==
  /\ view' = ArrayValue(<<>>)
  /\ loading' = FALSE
  /\ newSite' = DefaultSite
  /\ shown' = [sites |-> ArrayValue(<<>>), newSite |-> DefaultSite, loading |-> FALSE]
  /\ fetches' = {GetSites}
  /\ adds' = {}
  /\ toast' = "none"
  /\ typed' = 0
  /\ mounted' = TRUE
  /\ UNCHANGED <<registryVars, probeVars>>

\* The registry handles a request of the page, and the fetch settles.
\* For the GET of loadSites: the registry has answered (200 or 500, the
\* code does not look at which) and loadSites suspends again at
\* `await response.json()`; or the fetch was rejected and the catch raises a
\* notice.  A DELETE, should the page send one, takes the record out of
\* config.json; nothing waits for its answer.
loadSitesFetched ==
  /\ \E f \in fetches :
       /\ f.path = "/api/wordpress/sites"
       /\ f.state = "pending"
       /\ IF f.method = "GET"
            THEN /\ \/ /\ fetches' = (fetches \ {f})
                            \cup {[f EXCEPT !.state = "answered",
                                            !.response = GetResponse(file)]}
                       /\ toast' = "none"
                    \/ /\ fetches' = fetches \ {f}
                       /\ toast' = "Failed to load WordPress sites"
                 /\ UNCHANGED file
            ELSE /\ fetches' = fetches \ {f}
                 /\ toast' = "none"
                 /\ file' =
                      IF file.kind = "json" /\ SitesKey \in DOMAIN file.text
                        THEN writeFileSync(file,
                               JSONstringify(
                                 WithSites(JSONparse(file.text),
                                           Filter(JSONparse(file.text)[SitesKey],
                                                  UrlOf(JSONparseObject(f.body))))),
                               "ok")
                        ELSE file
  /\ UNCHANGED <<view, loading, newSite, adds>>
  /\ UNCHANGED <<typed, mounted, shown, reqs, response, probeVars>>

\* loadSites after `await response.json()`: the body of the answer is
\* installed as `sites` (on an unmounted page setSites does nothing).
loadSitesResume ==
  /\ \E f \in fetches :
       /\ f.method = "GET"
       /\ f.path = "/api/wordpress/sites"
       /\ f.state = "answered"
       /\ fetches' = fetches \ {f}
       /\ view' = IF Unmounted THEN view ELSE LoadedData(f.response)
  /\ toast' = "none"
  /\ UNCHANGED <<loading, newSite, adds>>
  /\ UNCHANGED <<typed, mounted, shown, registryVars, probeVars>>

\* onChange of one input: setNewSite({ ...newSite, [field]: value }), with
\* the newSite of the render the input belongs to.
onChange ==
  /\ ~Unmounted
  /\ typed < MaxTyped
  /\ typed' = typed + 1
  /\ \E field \in DOMAIN FieldValues :
       \E value \in FieldValues[field] :
         /\ shown.newSite[field] # JsString(value)
         /\ newSite' = [shown.newSite EXCEPT ![field] = JsString(value)]
  /\ toast' = "none"
  /\ UNCHANGED <<view, loading, fetches, adds>>
  /\ UNCHANGED <<mounted, shown, registryVars, probeVars>>

\* <Button onClick={addSite} disabled={loading}>, with the loading of the
\* render the button belongs to.
AddDisabled == shown.loading

\* A click on the add button (disabled while the page shows loading):
\* addSite up to its await, with the `sites` and `newSite` of the render
\* the button belongs to.  A form with a required field empty is refused
\* with a notice; otherwise loading is set and testConnection issues its
\* fetch.
addSite ==
  /\ ~Unmounted
  /\ ~AddDisabled
  /\ IF MissingRequired(shown.newSite)
       THEN /\ toast' = "Please fill in all required fields"
            /\ UNCHANGED <<view, loading, newSite, fetches, adds>>
       ELSE /\ Len(shown.sites.items) < MaxView
            /\ Cardinality(adds) < MaxAdds
            /\ LET id == CHOOSE i \in 1..MaxAdds :
                           /\ \A a \in adds : a.id # i
                           /\ \A j \in 1..(i - 1) : \E a \in adds : a.id = j
               IN  /\ fetches' = fetches \cup
                         {[f EXCEPT !.id = id] : f \in AddSiteFetches(shown.newSite)}
                   /\ adds' = adds \cup {[id |-> id, sites |-> shown.sites,
                                          newSite |-> shown.newSite]}
            /\ loading' = TRUE
            /\ toast' = "none"
            /\ UNCHANGED <<view, newSite>>
  /\ UNCHANGED <<typed, mounted, shown, registryVars, probeVars>>

\* The fetch of testConnection settles: the connectivity check answers with
\* what it found for some behaviour of the remote site, or the fetch is
\* rejected.
testConnectionSettles ==
  /\ \E f \in fetches :
       /\ f.path = "/api/wordpress/test-connection"
       /\ f.state = "pending"
       /\ \/ \E o \in RemoteOutcomes :
               fetches' = (fetches \ {f})
                 \cup {[f EXCEPT !.state = "answered", !.result = ProbeResponse(o)]}
          \/ fetches' = (fetches \ {f}) \cup {[f EXCEPT !.state = "rejected"]}
  /\ toast' = "none"
  /\ UNCHANGED <<view, loading, newSite, adds>>
  /\ UNCHANGED <<typed, mounted, shown, registryVars, probeVars>>

\* addSite after its await: the record is appended to the `sites` this
\* invocation was created with, the form is reset, loading is cleared, the
\* notice is raised: setSites replaces whatever `sites` holds, also an
\* { error } that loadSites set and no render has seen.  On an unmounted
\* page the state setters do nothing; the notice is raised all the same.
addSiteResume ==
  /\ \E a \in adds :
       \E f \in fetches :
         /\ f.path = "/api/wordpress/test-connection"
         /\ f.id = a.id
         /\ f.state # "pending"
         /\ fetches' = fetches \ {f}
         /\ adds' = adds \ {a}
         /\ IF Unmounted
              THEN /\ toast' = "WordPress site added successfully"
                   /\ UNCHANGED <<view, loading, newSite>>
              ELSE /\ view' = ArrayValue(Append(a.sites.items,
                                                 Merged(a.newSite, IsConnected(f))))
                   /\ newSite' = DefaultSite
                   /\ loading' = FALSE
                   /\ toast' = "WordPress site added successfully"
  /\ UNCHANGED <<typed, mounted, shown, registryVars, probeVars>>

\* A click on the remove button of the card of url: the card and the
\* `sites` that are filtered are those of the render the button belongs to.
removeSite ==
  /\ ~Unmounted
  /\ \E i \in 1..Len(shown.sites.items) :
       LET url == UrlOf(shown.sites.items[i])
       IN  /\ view' = ArrayValue(Remaining(shown.sites.items, url))
           /\ fetches' = fetches \cup RemoveSiteFetches(url)
  /\ toast' = "WordPress site removed successfully"
  /\ UNCHANGED <<loading, newSite, adds>>
  /\ UNCHANGED <<typed, mounted, shown, registryVars, probeVars>>

(***************************************************************************)
(* Specifications.                                                         *)
(*   Spec      : the site registry (GET, POST, DELETE of sites/route.ts)    *)
(*   SpecProbe : the connectivity check (POST of test-connection/route.ts) *)
(*   SpecGui   : the page (WordPressManager.tsx) over a registry that no    *)
(*               other client writes to                                    *)
(*   SpecGuiFair : SpecGui, where pending fetches settle and continuations *)
(*               run                                                       *)
(***************************************************************************)
\* The service starts with no request in flight on whatever config.json it
\* finds: none, one that is not JSON, or a document whose collection (if it
\* has one) holds at most one record per url.
\* No page is open.
NoPage ==
  /\ view = ArrayValue(<<>>)
  /\ loading = FALSE
  /\ newSite = DefaultSite
  /\ fetches = {}
  /\ adds = {}
  /\ toast = "none"
  /\ typed = 0
  /\ mounted = FALSE
  /\ shown = [sites |-> ArrayValue(<<>>), newSite |-> DefaultSite, loading |-> FALSE]

Init ==
  /\ file \in InitFiles
  /\ reqs = [r \in Slots |-> Idle]
  /\ response = NoResponse
  /\ probes = [p \in ProbeSlots |-> NoProbe]
  /\ NoPage

Next ==
  \/ GET /\ UNCHANGED <<probeVars, guiVars>>
  \/ \E r \in Slots :
       \/ Arrive(r) /\ UNCHANGED <<probeVars, guiVars>>
       \/ POST(r) /\ UNCHANGED <<probeVars, guiVars>>
       \/ DELETE(r) /\ UNCHANGED <<probeVars, guiVars>>

Spec == Init /\ [][Next]_vars

\* The connectivity check touches no file: config.json plays no part.
ProbeInit ==
  /\ file = MissingFile
  /\ reqs = [r \in Slots |-> Idle]
  /\ response = NoResponse
  /\ probes = [p \in ProbeSlots |-> NoProbe]
  /\ NoPage

ProbeNext ==
  \E p \in ProbeSlots :
    \/ ProbeArrive(p) /\ UNCHANGED guiVars
    \/ ProbeRequest(p) /\ UNCHANGED guiVars
    \/ ProbeSettle(p) /\ UNCHANGED guiVars
    \/ ProbeRelease(p) /\ UNCHANGED guiVars

SpecProbe == ProbeInit /\ [][ProbeNext]_vars

\* The page has just been opened, over whatever config.json the registry has.
GuiInit ==
  /\ file \in GuiFiles
  /\ reqs = [r \in Slots |-> Idle]
  /\ response = NoResponse
  /\ probes = [p \in ProbeSlots |-> NoProbe]
  /\ view = ArrayValue(<<>>)
  /\ loading = FALSE
  /\ newSite = DefaultSite
  /\ fetches = {GetSites}
  /\ adds = {}
  /\ toast = "none"
  /\ typed = 0
  /\ mounted = TRUE
  /\ shown = [sites |-> ArrayValue(<<>>), newSite |-> DefaultSite, loading |-> FALSE]

GuiNext ==
  \/ Mount
  \/ render
  \/ loadSitesFetched
  \/ loadSitesResume
  \/ onChange
  \/ addSite
  \/ testConnectionSettles
  \/ addSiteResume
  \/ removeSite

SpecGui == GuiInit /\ [][GuiNext]_vars

\* The page with its promises kept: a fetch of testConnection that is
\* pending settles (the connectivity check answers within its timeout, or
\* the fetch is rejected), and a continuation that can run is run by the
\* event loop, as is a render that is due.  Nothing obliges the user to
\* type, click or reload.
GuiFairness ==
  /\ WF_vars(testConnectionSettles)
  /\ WF_vars(addSiteResume)
  /\ WF_vars(render)

SpecGuiFair == GuiInit /\ [][GuiNext]_vars /\ GuiFairness

(***************************************************************************)
(* Vocabulary of the properties.                                           *)
(***************************************************************************)
\* The persisted collection: the records of the document, none when the
\* document has no wordpress_sites key or cannot be read.
ListOf(f) ==
  IF f.kind = "json" /\ SitesKey \in DOMAIN f.text THEN f.text[SitesKey] ELSE <<>>

\* Some record of the collection has the url of the object b.
HasUrl(list, b) == \E i \in 1..Len(list) : UrlOf(list[i]) = UrlOf(b)

\* The top-level keys of the document that the registry does not own.
OtherKeysOf(f) == [k \in DOMAIN f.text \ {SitesKey} |-> f.text[k]]

\* This step is the handler of request r returning its response.
Returned(r) ==
  /\ reqs[r].pc = "json"
  /\ reqs' = [reqs EXCEPT ![r] = Idle]
  /\ response'.method = reqs[r].method
  /\ response'.bodyOk = reqs[r].bodyOk
  /\ response'.body = reqs[r].body

\* ... with 200 and {success: true}.
ReturnedSuccess(r, m) ==
  /\ Returned(r)
  /\ reqs[r].method = m
  /\ response'.status = 200
  /\ response'.payload.tag = "success"

(***************************************************************************)
(* C1: the persisted collection never holds two records with the same url, *)
(* whatever POST and DELETE requests the service has handled since it      *)
(* started on a duplicate-free document.                                   *)
(***************************************************************************)
C1_UniqueUrls == NoDuplicates(ListOf(file))

\* An upsert of a url that was already there has been persisted among others.
C1_Witness ==
  /\ response.method = "POST"
  /\ response.status = 200
  /\ response.existingIndex >= 0
  /\ Len(ListOf(file)) >= 2

(***************************************************************************)
(* C2: a successful upsert of a record whose url is not in the collection  *)
(* appends it: list() afterwards is list() before followed by the record,  *)
(* so records upserted one after the other appear in insertion order and   *)
(* the records already there keep their positions.                         *)
(***************************************************************************)
C2_AppendInOrder ==
  [][\A r \in Slots :
       (ReturnedSuccess(r, "POST") /\ ~HasUrl(ListOf(file), reqs[r].body))
         => /\ GetResponse(file').status = 200
            /\ GetResponse(file').payload.sites
                 = Append(GetResponse(file).payload.sites, reqs[r].body)]_vars

\* A new record has been appended behind an older one.
C2_Witness ==
  /\ response.method = "POST"
  /\ response.status = 200
  /\ response.existingIndex = -1
  /\ Len(ListOf(file)) >= 2
  /\ ListOf(file)[Len(ListOf(file))] = response.body
  /\ GetResponse(file).payload.sites = ListOf(file)

(***************************************************************************)
(* C3: a successful upsert of a record whose url is in the collection      *)
(* replaces the record of that url, at its index, by exactly the posted    *)
(* record, and leaves every other record, every position and the length    *)
(* unchanged.                                                              *)
(***************************************************************************)
C3_ReplaceInPlace ==
  [][\A r \in Slots :
       (ReturnedSuccess(r, "POST") /\ HasUrl(ListOf(file), reqs[r].body))
         => /\ Len(ListOf(file')) = Len(ListOf(file))
            /\ \A i \in 1..Len(ListOf(file)) :
                 ListOf(file')[i] =
                   IF UrlOf(ListOf(file)[i]) = UrlOf(reqs[r].body)
                     THEN reqs[r].body
                     ELSE ListOf(file)[i]]_vars

\* The record without a category sits where a record of its url was, between
\* or beside two others.
C3_Witness ==
  /\ response.method = "POST"
  /\ response.status = 200
  /\ response.existingIndex >= 0
  /\ Len(ListOf(file)) = 3
  /\ ListOf(file)[response.existingIndex + 1] = response.body
  /\ DOMAIN response.body = {"url"}

(***************************************************************************)
(* C4: a successful delete(url) leaves exactly the records whose url is    *)
(* not the given one, in their original relative order, and list()         *)
(* afterwards holds no record with that url.                               *)
(***************************************************************************)
C4_DeleteRemoves ==
  [][\A r \in Slots :
       ReturnedSuccess(r, "DELETE")
         => LET u == UrlOf(reqs[r].body)
                before == ListOf(file)
                after == ListOf(file')
                keep == {i \in 1..Len(before) : UrlOf(before[i]) # u}
                listed == GetResponse(file').payload.sites
            IN  /\ Len(after) = Cardinality(keep)
                /\ \A i \in keep :
                     after[Cardinality({k \in keep : k <= i})] = before[i]
                /\ \A j \in 1..Len(listed) : UrlOf(listed[j]) # u]_vars

\* A delete has returned and two records of other urls are still listed.
C4_Witness ==
  /\ response.method = "DELETE"
  /\ response.status = 200
  /\ Len(ListOf(file)) = 2
  /\ ~HasUrl(ListOf(file), response.body)

(***************************************************************************)
(* C5: a delete(url) whose url matches no stored record, the document      *)
(* having no wordpress_sites key included, answers 200 {success: true} and *)
(* leaves list() as it was, unless the store fails to write; with the key  *)
(* absent nothing is written at all.                                       *)
(***************************************************************************)
C5_DeleteMissingIsNoop ==
  [][\A r \in Slots :
       (/\ Returned(r)
        /\ reqs[r].method = "DELETE"
        /\ reqs[r].bodyOk
        /\ file.kind = "json"
        /\ ~HasUrl(ListOf(file), reqs[r].body))
         => \/ /\ response'.status = 200
               /\ response'.payload.tag = "success"
               /\ GetResponse(file') = GetResponse(file)
               /\ SitesKey \notin DOMAIN file.text => file' = file
            \/ /\ response'.error = "write"
               /\ SitesKey \in DOMAIN file.text]_vars

\* A delete has succeeded on a document that has no collection.
C5_Witness ==
  /\ response.method = "DELETE"
  /\ response.status = 200
  /\ file.kind = "json"
  /\ SitesKey \notin DOMAIN file.text

(***************************************************************************)
(* C6: list() answers 200 with the empty sequence when the document has no *)
(* wordpress_sites key or an empty collection, and it fails exactly when   *)
(* the document cannot be read or parsed.                                  *)
(***************************************************************************)
C6_ListOfEmptyStore ==
  response.method = "GET"
    => /\ response.status = 500 <=> file.kind # "json"
       /\ response.status = 500 => response.error \in {"read", "parse"}
       /\ (file.kind = "json" /\ ListOf(file) = <<>>)
            => /\ response.status = 200
               /\ response.payload = Payload("sites", <<>>)

\* list() has answered on a document without the key.
C6_Witness ==
  /\ response.method = "GET"
  /\ response.status = 200
  /\ response.payload.sites = <<>>
  /\ file.kind = "json"
  /\ SitesKey \notin DOMAIN file.text

(***************************************************************************)
(* C7: no request adds, removes or alters a top-level key of the document  *)
(* other than wordpress_sites.                                             *)
(***************************************************************************)
C7_OtherKeysUntouched ==
  [][(file.kind = "json" /\ file'.kind = "json")
       => OtherKeysOf(file') = OtherKeysOf(file)]_vars

(***************************************************************************)
(* C8: read-modify-write cycles do not interleave: a request that returns  *)
(* success has applied its update to the document as it stood when it      *)
(* returned, so it drops no record of another url (no lost update), an     *)
(* upsert's record is in the collection, and a delete's url is not.        *)
(***************************************************************************)
C8_NoLostUpdate ==
  [][\A r \in Slots :
       (Returned(r) /\ response'.status = 200)
         => LET before == ListOf(file)
                after == ListOf(file')
                mine == UrlOf(reqs[r].body)
                Others(l) == SelectSeq(l, LAMBDA s : UrlOf(s) # mine)
            IN  /\ Others(after) = Others(before)
                /\ reqs[r].method = "POST"
                     => \E i \in 1..Len(after) : after[i] = reqs[r].body
                /\ reqs[r].method = "DELETE"
                     => \A i \in 1..Len(after) : UrlOf(after[i]) # mine]_vars

\* Upserts of three urls have all returned and all three records are there.
C8_Witness ==
  /\ \A r \in Slots : reqs[r].pc = "idle"
  /\ response.method = "POST"
  /\ response.status = 200
  /\ response.existingIndex = -1
  /\ {UrlOf(ListOf(file)[i]) : i \in 1..Len(ListOf(file))}
       = {StrLit(u) : u \in Urls}

(***************************************************************************)
(* C9: a reader never finds a half-written document.                       *)
(***************************************************************************)
C9_NeverHalfWritten == file.kind # "torn"

(***************************************************************************)
(* C10: a request that answers {success: true} has persisted its update,   *)
(* and a request that answers 500 has left the persisted document exactly  *)
(* as it was.                                                              *)
(***************************************************************************)
C10_AllOrNothing ==
  [][\A r \in Slots :
       Returned(r)
         => /\ response'.status = 200
                 => /\ file'.kind = "json"
                    /\ reqs[r].method = "POST" => HasUrl(ListOf(file'), reqs[r].body)
                    /\ reqs[r].method = "DELETE" => ~HasUrl(ListOf(file'), reqs[r].body)
            /\ response'.status = 500 => file' = file]_vars

(***************************************************************************)
(* C11: while config.json is missing or is not JSON, the store does not    *)
(* default to an empty document: GET answers 500 {error}, every POST and   *)
(* DELETE that returns answers 500 {error}, and no step creates or changes *)
(* the file.                                                               *)
(***************************************************************************)
C11_NoSilentDefault ==
  [][file.kind # "json"
       => /\ file' = file
          /\ GetResponse(file).status = 500
          /\ GetResponse(file).payload.tag = "error"
          /\ \A r \in Slots :
               Returned(r) => /\ response'.status = 500
                              /\ response'.payload.tag = "error"]_vars

\* A well-formed POST has been answered 500 because there is no file, and
\* there is still no file.
C11_Witness ==
  /\ file.kind = "missing"
  /\ response.method = "POST"
  /\ response.bodyOk
  /\ response.status = 500
  /\ response.error = "read"

(***************************************************************************)
(* Vocabulary of the properties of the connectivity check.                 *)
(***************************************************************************)
\* The check in slot p has returned its response.
ProbeDone(p) == probes[p].pc = "done"

\* The remote read of the returned check in slot p came back with a 2xx
\* status within the timeout.
RemoteSucceeded(p) ==
  /\ probes[p].bodyOk
  /\ probes[p].remote.reply = "200"
  /\ probes[p].remote.latency <= ProbeTimeoutMs

\* Why the returned check in slot p failed: the body of the request, or what
\* became of the remote read.
FailureCause(p) ==
  IF ~probes[p].bodyOk THEN "body" ELSE AxiosError(probes[p].remote)

(***************************************************************************)
(* C12: every check that has returned (whatever the request body and        *)
(* whatever the remote did) has connected = true exactly when the remote    *)
(* read came back with a successful status within the 5 second timeout.     *)
(***************************************************************************)
C12_ConnectedIffRemoteSuccess ==
  \A p \in ProbeSlots :
    ProbeDone(p) => (probes[p].result.connected <=> RemoteSucceeded(p))

(***************************************************************************)
(* C13: a failed check carries its classified cause: "network" for an       *)
(* unreachable host, "timeout" for a read that exceeded the timeout, and    *)
(* two checks that failed for different causes have different results.      *)
(***************************************************************************)
C13_ClassifiedFailure ==
  /\ \A p \in ProbeSlots :
       ProbeDone(p) /\ FailureCause(p) \in {"network", "timeout"}
         => probes[p].result.error = FailureCause(p)
  /\ \A p, q \in ProbeSlots :
       /\ ProbeDone(p) /\ ~probes[p].result.connected
       /\ ProbeDone(q) /\ ~probes[q].result.connected
       /\ FailureCause(p) # FailureCause(q)
       => probes[p].result # probes[q].result

(***************************************************************************)
(* C13, as the code has it: every failed check is answered with status 500, *)
(* connected = false and the one message "Failed to connect to WordPress    *)
(* site", whatever the cause; the result does not tell the causes apart.    *)
(***************************************************************************)
C13_GenericFailure ==
  \A p \in ProbeSlots :
    ProbeDone(p) /\ ~probes[p].result.connected
      => /\ probes[p].result.status = 500
         /\ probes[p].result.error = "Failed to connect to WordPress site"
         /\ probes[p].result.version = Undefined
         /\ probes[p].result.last_post = Undefined

\* One check has failed on an unreachable host and another on the timeout,
\* and they were given the same result.
C13_Witness ==
  /\ ProbeDone(1) /\ FailureCause(1) = "network"
  /\ ProbeDone(2) /\ FailureCause(2) = "timeout"
  /\ ~probes[1].result.connected
  /\ probes[1].result = probes[2].result

(***************************************************************************)
(* C14: a check whose remote read succeeded is answered 200 with            *)
(* connected = true, the post count taken from the x-wp-total header when   *)
(* the remote sent one, and the last post date that of the first item of    *)
(* the listing, null when the listing is empty (or its first item has no    *)
(* date).                                                                   *)
(***************************************************************************)
C14_SuccessMapping ==
  \A p \in ProbeSlots :
    ProbeDone(p) /\ RemoteSucceeded(p)
      => LET o == probes[p].remote
             res == probes[p].result
         IN  /\ res.status = 200
             /\ res.connected
             /\ o.total # Undefined => res.version = o.total
             /\ res.last_post =
                  IF o.data.items = <<>> THEN JsNull
                  ELSE IF /\ "date" \in DOMAIN o.data.items[1]
                          /\ o.data.items[1].date # JsString("")
                    THEN o.data.items[1].date
                    ELSE JsNull

(***************************************************************************)
(* Vocabulary of the properties of the page.                               *)
(***************************************************************************)
\* The fetches of the connectivity check the page has in flight for the
\* candidate of the suspended addSite a.
ProbesOf(a) ==
  {f \in fetches : /\ f.method = "POST"
                   /\ f.path = "/api/wordpress/test-connection"
                   /\ f.id = a.id
                   /\ f.body = JSONstringifyObject(a.newSite)}

\* The requests among the fetches fs, whatever has been answered to them.
Issued(fs) == {<<f.method, f.path, f.body>> : f \in fs}

\* This step is a suspended addSite presenting its record.
Presented ==
  /\ ~Unmounted
  /\ toast' = "WordPress site added successfully"

\* The record at the end of the list.
LastOf(items) == items[Len(items)]

(***************************************************************************)
(* C15: while url, username or password of the form the page shows (the    *)
(* candidate a click on the add button would read) is empty, no step       *)
(* starts an add: no connectivity check and no request to the registry is  *)
(* issued and loading is not set; the click on the add button is answered  *)
(* with the notice only, and the list, the form and loading are left as    *)
(* they were.                                                              *)
(***************************************************************************)
C15_RejectedLocally ==
  [][(\/ shown.newSite.url = JsString("")
      \/ shown.newSite.username = JsString("")
      \/ shown.newSite.password = JsString(""))
       => /\ adds' \subseteq adds
          /\ Issued(fetches') \subseteq Issued(fetches \cup {GetSites})
          /\ loading' => loading
          /\ file' = file
          /\ toast' = "Please fill in all required fields"
               => /\ ~loading'
                  /\ UNCHANGED <<view, newSite, fetches, adds>>]_vars

\* The add button was clicked on a form with a url and a username and no
\* password: the notice is up, nothing is in flight, loading is off.
C15_Witness ==
  /\ toast = "Please fill in all required fields"
  /\ shown.newSite.url = JsString("https://a.example")
  /\ shown.newSite.username = JsString("admin")
  /\ shown.newSite.password = JsString("")
  /\ newSite = shown.newSite
  /\ fetches = {}
  /\ adds = {}
  /\ ~loading

(***************************************************************************)
(* C16: an addSite that passed validation issues one connectivity check    *)
(* for its candidate when it starts, no other step issues one, and the     *)
(* addSite has exactly that one in flight until it resumes; the record it  *)
(* then presents is the last of the list, with is_connected the connected  *)
(* flag of the answer (false when the fetch was rejected) and every other  *)
(* field that of the candidate.                                            *)
(***************************************************************************)
C16_ProbedOnceAndMerged ==
  [][/\ \A a \in adds : Cardinality(ProbesOf(a)) = 1
     /\ \A a \in adds' \ adds :
          /\ ProbesOf(a) = {}
          /\ fetches' = fetches \cup {[TestConnection(a.newSite) EXCEPT !.id = a.id]}
     /\ \A f \in fetches' \ fetches :
          f.path = "/api/wordpress/test-connection" /\ f.state = "pending"
            => \E a \in adds' \ adds : f.id = a.id
     /\ Presented
          => \E a \in adds \ adds' :
               \E f \in ProbesOf(a) :
                 LET added == LastOf(view'.items)
                 IN  /\ f.state # "pending"
                     /\ f \notin fetches'
                     /\ view'.items = Append(a.sites.items, added)
                     /\ DOMAIN added = DOMAIN a.newSite \cup {"is_connected"}
                     /\ added.is_connected =
                          JsBoolean(f.state = "answered" /\ f.result.connected)
                     /\ \A k \in DOMAIN a.newSite : added[k] = a.newSite[k]]_vars

\* A candidate has been presented as not connected after the connectivity
\* check answered 500, with the url and the credentials that were typed.
C16_Witness ==
  /\ toast = "WordPress site added successfully"
  /\ view.kind = "array"
  /\ Len(view.items) = 1
  /\ view.items[1] = Merged([DefaultSite EXCEPT !.url = JsString("https://b.example"),
                                                !.username = JsString("admin"),
                                                !.password = JsString("x")], FALSE)
  /\ fetches = {}

(***************************************************************************)
(* C17: no step of the page changes config.json, and the page never has a  *)
(* request to the registry in flight other than the GET of loadSites;      *)
(* when that GET is answered 200, loadSites replaces the list, whatever    *)
(* adds and removes made of it, with the persisted collection.             *)
(***************************************************************************)
C17_ViewOnly ==
  [][/\ file' = file
     /\ \A f \in fetches' : f.path = "/api/wordpress/sites" => f.method = "GET"
     /\ \A f \in fetches \ fetches' :
          (/\ f.path = "/api/wordpress/sites"
           /\ f.state = "answered"
           /\ f.response.status = 200
           /\ GetSites \notin fetches')
            => view' = ArrayValue(JSONparseArray(ListOf(file)))]_vars

\* The page still shows the record an add presented, and loadSites, resumed
\* since that render, has put the one record of config.json in its place.
C17_Witness ==
  /\ Len(ListOf(file)) = 1
  /\ view = ArrayValue(JSONparseArray(ListOf(file)))
  /\ Len(shown.sites.items) = 1
  /\ "is_connected" \in DOMAIN shown.sites.items[1]
  /\ newSite = shown.newSite
  /\ loading = shown.loading
  /\ toast = "none"
  /\ fetches = {}
  /\ adds = {}

(***************************************************************************)
(* C18: when a record of url u was removed from the list while an addSite  *)
(* was suspended on its connectivity check, the list that addSite presents *)
(* is the list as the removal left it plus the new record: no record       *)
(* before the new one has url u.                                           *)
(***************************************************************************)
C18_RemovalSurvivesAdd ==
  [][Presented
       => \A a \in adds \ adds' :
            \A i \in 1..Len(a.sites.items) :
              LET u == UrlOf(a.sites.items[i])
              IN  view.kind = "array" /\ view.items = Remaining(a.sites.items, u)
                    => /\ view'.items = Append(view.items, LastOf(view'.items))
                       /\ \A j \in 1..(Len(view'.items) - 1) :
                            UrlOf(view'.items[j]) # u]_vars

(***************************************************************************)
(* C19: the list of the page is an array in every state, whatever GET      *)
(* answered to loadSites.                                                  *)
(***************************************************************************)
C19_ViewIsArray == view.kind = "array"

(***************************************************************************)
(* C20: the list of the page, loaded from a collection with one record per *)
(* url, never holds two records with the same url, whatever is loaded,     *)
(* added and removed.                                                      *)
(***************************************************************************)
C20_ViewUniqueUrls == NoDuplicates(view.items)

====
